---- MODULE Spec2Model ----
(***************************************************************************)
(* setuppy2cfg: a walk over the keyword arguments of a setup() call that   *)
(* fills a configuration model (Walker.output), followed by write().       *)
(* One run of main(): construct a walker for the chosen format, visit the  *)
(* call, process its keywords one by one, write the result.                *)
(***************************************************************************)
EXTENDS Integers, Sequences, FiniteSets, TLC

VARIABLES format, callee, keywords, pc, i, output, warnings, stderr, config, lines

vars == <<format, callee, keywords, pc, i, output, warnings, stderr, config, lines>>

(***************************************************************************)
(* Bounds of the model.                                                    *)
(***************************************************************************)
\* longest keyword list of the setup() call
MaxKeywords == 3
\* longest list / tuple literal
MaxElts == 2

(***************************************************************************)
(* Python values, as ast.literal_eval and get_value produce them.          *)
(* t is the Python type, v the elements (a scalar holds its text as the    *)
(* single element), items the [k, val] entries of a dict in order.         *)
(***************************************************************************)
PyStr(s) == [t |-> "str", v |-> <<s>>, items |-> <<>>]
PyBool(s) == [t |-> "bool", v |-> <<s>>, items |-> <<>>]
PyNone == [t |-> "NoneType", v |-> <<>>, items |-> <<>>]
PyList(elts) == [t |-> "list", v |-> elts, items |-> <<>>]
PyTuple(elts) == [t |-> "tuple", v |-> elts, items |-> <<>>]
PyDict(its) == [t |-> "dict", v |-> <<>>, items |-> its]

\* bool(value): Python truthiness
Truthy(val) ==
    CASE val.t = "NoneType" -> FALSE
      [] val.t = "str" -> val.v[1] /= ""
      [] val.t = "bool" -> val.v[1] = "True"
      [] val.t = "int" -> val.v[1] /= "0"
      [] val.t = "dict" -> val.items /= <<>>
      [] OTHER -> val.v /= <<>>

(***************************************************************************)
(* Insertion-ordered dicts: sequences of [k, val] entries.                 *)
(***************************************************************************)
HasKey(d, key) == \E n \in 1..Len(d) : d[n].k = key
DictGet(d, key) == d[CHOOSE n \in 1..Len(d) : d[n].k = key].val
DictSet(d, key, val) ==
    IF HasKey(d, key)
    THEN [n \in 1..Len(d) |-> IF d[n].k = key THEN [k |-> key, val |-> val] ELSE d[n]]
    ELSE Append(d, [k |-> key, val |-> val])
DictPop(d, key) == SelectSeq(d, LAMBDA e : e.k /= key)
Keys(d) == [n \in 1..Len(d) |-> d[n].k]

\* self.output = defaultdict(dict): a sequence of [name, data] sections
HasSection(out, name) == \E n \in 1..Len(out) : out[n].name = name
Section(out, name) ==
    IF HasSection(out, name)
    THEN out[CHOOSE n \in 1..Len(out) : out[n].name = name].data
    ELSE <<>>
\* self.output[name][key] = val
OutputSet(out, name, key, val) ==
    IF HasSection(out, name)
    THEN [n \in 1..Len(out) |->
            IF out[n].name = name
            THEN [name |-> name, data |-> DictSet(out[n].data, key, val)]
            ELSE out[n]]
    ELSE Append(out, [name |-> name, data |-> <<[k |-> key, val |-> val]>>])

(***************************************************************************)
(* Source text of callees, as sequences of characters, and str.endswith.   *)
(***************************************************************************)
endswith(text, suffix) ==
    /\ Len(text) >= Len(suffix)
    /\ SubSeq(text, Len(text) - Len(suffix) + 1, Len(text)) = suffix

txt_setup == <<"s", "e", "t", "u", "p">>
txt_find_packages == <<"f", "i", "n", "d", "_", "p", "a", "c", "k", "a", "g", "e", "s">>
txt_find_namespace_packages ==
    <<"f", "i", "n", "d", "_", "n", "a", "m", "e", "s", "p", "a", "c", "e",
      "_", "p", "a", "c", "k", "a", "g", "e", "s">>
txt_setuptools_dot == <<"s", "e", "t", "u", "p", "t", "o", "o", "l", "s", ".">>
txt_read == <<"r", "e", "a", "d">>
txt_print == <<"p", "r", "i", "n", "t">>

(***************************************************************************)
(* AST nodes.  An argument node of a nested call is [node, ctype, elts,    *)
(* items]; an expression node adds the name and, for a Call, the callee    *)
(* text and the where / include / exclude arguments.                       *)
(***************************************************************************)
Elements(n) == [j \in 1..n |-> "pkg" \o ToString(j)]

ArgNode(kind, ctype, elts) == [node |-> kind, ctype |-> ctype, elts |-> elts, items |-> <<>>]
ArgAbsent == ArgNode("absent", "", <<>>)
ArgStr(s) == ArgNode("Constant", "str", <<s>>)
ArgList(n) == ArgNode("List", "", Elements(n))
ArgTuple(n) == ArgNode("Tuple", "", Elements(n))
ArgName == ArgNode("Name", "", <<>>)

NoArgs == [where |-> ArgAbsent, include |-> ArgAbsent, exclude |-> ArgAbsent]

Node(kind, ctype, elts, its, id, func, fp) ==
    [node |-> kind, ctype |-> ctype, elts |-> elts, items |-> its,
     id |-> id, func |-> func, fp |-> fp]
ConstNode(ctype, text) == Node("Constant", ctype, <<text>>, <<>>, "", <<>>, NoArgs)
NoneNode == Node("Constant", "NoneType", <<>>, <<>>, "", <<>>, NoArgs)
ListNode(n) == Node("List", "", Elements(n), <<>>, "", <<>>, NoArgs)
TupleNode(n) == Node("Tuple", "", Elements(n), <<>>, "", <<>>, NoArgs)
DictNode == Node("Dict", "", <<>>,
                 <<[k |-> "console_scripts", val |-> PyList(Elements(MaxElts))]>>,
                 "", <<>>, NoArgs)
NameNode(id) == Node("Name", "", <<>>, <<>>, id, <<>>, NoArgs)
BinOpNode == Node("BinOp", "", <<>>, <<>>, "", <<>>, NoArgs)
CallNode(func, w, inc, exc) ==
    Node("Call", "", <<>>, <<>>, "", func,
         [where |-> w, include |-> inc, exclude |-> exc])

\* calls of the package-discovery helpers that appear as keyword values
FindCalls ==
    {CallNode(txt_find_packages, w, ArgAbsent, ArgAbsent) :
        w \in {ArgAbsent, ArgStr("."), ArgStr("src"), ArgName}}
    \cup {CallNode(txt_find_packages, ArgStr("src"), ArgList(MaxElts), ArgAbsent),
          CallNode(txt_find_packages, ArgAbsent, ArgList(MaxElts), ArgTuple(1)),
          CallNode(txt_find_packages, ArgAbsent, ArgList(0), ArgTuple(1)),
          CallNode(txt_setuptools_dot \o txt_find_packages, ArgStr("."),
                   ArgList(MaxElts), ArgAbsent),
          CallNode(txt_find_namespace_packages, ArgAbsent, ArgAbsent, ArgAbsent)}

\* the value expressions tried for each keyword name
ValuesOf(arg) ==
    CASE arg = "version" ->
            {ConstNode("str", "1.0"), NameNode("VERSION"), NoneNode,
             CallNode(txt_read, ArgAbsent, ArgAbsent, ArgAbsent)}
      [] arg = "classifiers" -> {ListNode(MaxElts), TupleNode(MaxElts)}
      [] arg = "zip_safe" -> {ConstNode("bool", "False"), BinOpNode}
      [] arg = "entry_points" -> {DictNode, ConstNode("str", "[console_scripts]"),
                                  NameNode("ENTRY_POINTS")}
      [] arg = "packages" -> {ListNode(1)} \cup FindCalls
      [] OTHER -> {DictNode}

ArgNames == {"version", "classifiers", "zip_safe", "entry_points", "packages", "cmdclass"}

\* ast.keyword nodes
KeywordPool == UNION {{[arg |-> a, value |-> val] : val \in ValuesOf(a)} : a \in ArgNames}

ArgsOf(kws) == {kws[n].arg : n \in 1..Len(kws)}

\* keyword lists of at most n keywords; Python rejects a repeated keyword
RECURSIVE KeywordLists(_)
KeywordLists(n) ==
    IF n = 0 THEN {<<>>}
    ELSE LET shorter == KeywordLists(n - 1)
         IN  shorter \cup
             UNION {{Append(kws, kw) : kw \in {k \in KeywordPool : k.arg \notin ArgsOf(kws)}} :
                        kws \in {l \in shorter : Len(l) = n - 1}}

Callees == {txt_setuptools_dot \o txt_setup, txt_print}
Formats == {"setup.cfg", "pyproject.toml"}

(***************************************************************************)
(* Walker                                                                  *)
(***************************************************************************)
Diag(msg, section, field) == [msg |-> msg, section |-> section, field |-> field]

\* ast.literal_eval: the value of a literal node, ValueError for any other
literal_eval(node) ==
    CASE node.node = "Constant" -> [ok |-> TRUE,
                                    val |-> [t |-> node.ctype, v |-> node.elts, items |-> <<>>]]
      [] node.node = "List" -> [ok |-> TRUE, val |-> PyList(node.elts)]
      [] node.node = "Tuple" -> [ok |-> TRUE, val |-> PyTuple(node.elts)]
      [] node.node = "Dict" -> [ok |-> TRUE, val |-> PyDict(node.items)]
      [] OTHER -> [ok |-> FALSE, val |-> PyNone]

get_value(node) ==
    IF node.node = "Name"
    THEN [ok |-> TRUE, val |-> PyStr("attr:" \o node.id)]
    ELSE literal_eval(node)

is_setup_call(func) == endswith(func, txt_setup)

is_find_packages_call(node) ==
    IF node.node /= "Call" THEN FALSE
    ELSE endswith(node.func, txt_find_packages)

\* call_to_args: literal_eval of every argument given, bound to the
\* parameters of setuptools.find_packages; only given arguments are bound
BoundArg(a) == [present |-> a.node /= "absent", val |-> literal_eval(a).val]
call_to_args(call) ==
    [ok |-> \A key \in {"where", "include", "exclude"} :
                call.fp[key].node /= "absent" => literal_eval(call.fp[key]).ok,
     where |-> BoundArg(call.fp.where),
     include |-> BoundArg(call.fp.include),
     exclude |-> BoundArg(call.fp.exclude)]

\* fp_args.get(key, default)
ArgsGet(fp_args, key, default) ==
    IF fp_args[key].present THEN fp_args[key].val ELSE default

\* a where test that rejects nothing
where_rejected_never(where) == FALSE

\* where != "."
where_rejected(where) == where /= PyStr(".")

\* the value stored as bound, without list()
list_of_as_bound(value) == value

\* list(value), for the list and tuple values this model binds
list_of(value) == PyList(value.v)

\* one pass of the loop over ("include", "exclude")
find_option(out, fp_args, key) ==
    LET value == ArgsGet(fp_args, key, PyNone)
    IN  IF Truthy(value)
        THEN OutputSet(out, "options.packages.find", key, list_of(value))
        ELSE out

process_find_packages(out, call) ==
    LET fp_args == call_to_args(call)
    IN  IF ~fp_args.ok
        THEN [raised |-> TRUE, output |-> out, value |-> PyNone]
        ELSE IF where_rejected(ArgsGet(fp_args, "where", PyStr(".")))
        THEN [raised |-> TRUE, output |-> out, value |-> PyNone]
        ELSE [raised |-> FALSE,
              output |-> find_option(find_option(out, fp_args, "include"), fp_args, "exclude"),
              value |-> PyStr("find:")]

\* module-level warn(msg): prints to stderr only
warn(err, msg) == Append(err, msg)

\* Walker.warn(msg): warn(msg), then self.warnings.append(msg)
Walker_warn(w, msg) == [stderr |-> warn(w.stderr, msg), warnings |-> Append(w.warnings, msg)]

\* the lookup tables of the base class are empty
Walker_metadata_keys == {}
Walker_options_keys == {}

(***************************************************************************)
(* SetupCfgWalker                                                          *)
(***************************************************************************)
metadata_keys ==
    {"name", "version", "url", "download_url", "project_urls", "author",
     "author_email", "maintainer", "maintainer_email", "classifiers", "license",
     "license_files", "description", "long_description",
     "long_description_content_type", "keywords", "platforms", "provides",
     "requires", "obsoletes"}
options_keys ==
    {"zip_safe", "setup_requires", "install_requires", "extras_require",
     "python_requires", "entry_points", "scripts", "eager_resources",
     "dependency_links", "tests_require", "include_package_data", "packages",
     "package_dir", "package_data", "exclude_package_data", "namespace_packages",
     "py_modules", "data_files"}

\* the (section, key) pair of a keyword name, <<>> for None
output_key_of(arg) ==
    IF arg \in metadata_keys THEN <<"metadata", arg>>
    ELSE IF arg \in options_keys THEN <<"options", arg>>
    ELSE <<>>

\* the result of process_setup_keyword: whether it raised, and the output
\* and stderr it leaves
SetupCfg_process_setup_keyword(out, err, kw) ==
    LET output_key == output_key_of(kw.arg)
        found == output_key = <<"options", "packages">> /\ is_find_packages_call(kw.value)
        fp == process_find_packages(out, kw.value)
        out1 == IF found THEN fp.output ELSE out
        got == get_value(kw.value)
    IN  IF output_key = <<>>
        THEN [raised |-> FALSE, output |-> out,
              stderr |-> warn(err, Diag("No output mapping", "", kw.arg))]
        ELSE IF found /\ fp.raised
        THEN [raised |-> TRUE, output |-> out1, stderr |-> err]
        ELSE IF found
        THEN [raised |-> FALSE, stderr |-> err,
              output |-> OutputSet(out1, output_key[1], output_key[2], fp.value)]
        ELSE IF ~got.ok
        THEN [raised |-> TRUE, output |-> out, stderr |-> err]
        ELSE [raised |-> FALSE, stderr |-> err,
              output |-> OutputSet(out, output_key[1], output_key[2], got.val)]

(***************************************************************************)
(* PyProjectTomlWalker                                                     *)
(***************************************************************************)
PyProject_process_setup_keyword(out, err, kw) ==
    LET got == get_value(kw.value)
    IN  IF ~got.ok
        THEN [raised |-> TRUE, output |-> out, stderr |-> err]
        ELSE [raised |-> FALSE, stderr |-> err,
              output |-> OutputSet(out, "project", kw.arg, got.val)]

(***************************************************************************)
(* get_output and write                                                    *)
(***************************************************************************)
\* Walker.get_output: deepcopy(dict(self.output)), a sequence of
\* [name, data] entries whose data is a dict value
Walker_get_output(out) ==
    [n \in 1..Len(out) |-> [name |-> out[n].name, data |-> PyDict(out[n].data)]]

\* a relocation that reads the key and leaves it in place
pop_entry_points_left(conf) == conf

\* config.get("options", {}).pop("entry_points", None)
pop_entry_points(conf) ==
    [n \in 1..Len(conf) |->
        IF conf[n].name = "options"
        THEN [name |-> "options", data |-> PyDict(DictPop(conf[n].data.items, "entry_points"))]
        ELSE conf[n]]

\* config[name] = data
ConfigSet(conf, name, data) ==
    IF \E n \in 1..Len(conf) : conf[n].name = name
    THEN [n \in 1..Len(conf) |->
            IF conf[n].name = name THEN [name |-> name, data |-> data] ELSE conf[n]]
    ELSE Append(conf, [name |-> name, data |-> data])

SetupCfg_get_output(out) ==
    LET conf == Walker_get_output(out)
        options == Section(out, "options")
        popped == IF HasKey(options, "entry_points")
                  THEN DictGet(options, "entry_points")
                  ELSE PyNone
    IN  ConfigSet(pop_entry_points(conf), "options.entry_points", popped)

indent == 4

RECURSIVE Spaces(_)
Spaces(n) == IF n = 0 THEN "" ELSE " " \o Spaces(n - 1)

\* the text of a diagnostic (its first line)
MsgText(d) ==
    IF d.section = "" THEN d.msg \o " " \o d.field
    ELSE d.msg \o " " \o d.section \o "." \o d.field

\* the lines printed for the atoms of a list value
AtomLines(value) == [n \in 1..Len(value.v) |-> Spaces(indent) \o value.v[n]]

\* the body of the loop over data.items(); acc is [lines, stderr, raised]
write_item(acc, section, key, value) ==
    IF value.t \in {"str", "bool", "int"}
    THEN [acc EXCEPT !.lines = Append(@, key \o " = " \o value.v[1])]
    ELSE IF value.t = "list"
    THEN [acc EXCEPT !.lines = Append(@, key \o " =") \o AtomLines(value)]
    ELSE LET msg == Diag("Non-serializable value", section, key)
         IN  [acc EXCEPT !.stderr = warn(@, msg),
                         !.lines = Append(@, "# " \o MsgText(msg))]

RECURSIVE write_items(_, _, _, _)
write_items(acc, section, data, n) ==
    IF n > Len(data) THEN acc
    ELSE write_items(write_item(acc, section, data[n].k, data[n].val), section, data, n + 1)

\* the loop over config.items(); data.items() raises AttributeError when
\* data is not a dict, after the section header is printed
RECURSIVE write_sections(_, _, _)
write_sections(acc, conf, n) ==
    IF n > Len(conf) THEN acc
    ELSE LET section == conf[n].name
             data == conf[n].data
             head == [acc EXCEPT !.lines = Append(@, "[" \o section \o "]")]
             body == write_items(head, section, data.items, 1)
         IN  IF ~Truthy(data) THEN write_sections(acc, conf, n + 1)
             ELSE IF data.t /= "dict" THEN [head EXCEPT !.raised = TRUE]
             ELSE write_sections([body EXCEPT !.lines = Append(@, "")], conf, n + 1)

\* the trailing block: textwrap.indent(warning, "# ") for each warning
WarningLines(ws) == [n \in 1..Len(ws) |-> "# " \o MsgText(ws[n])]

\* Walker.write
Walker_write(conf, ws, err) ==
    LET acc == write_sections([lines |-> <<>>, stderr |-> err, raised |-> FALSE], conf, 1)
    IN  IF acc.raised THEN acc
        ELSE [acc EXCEPT !.lines = @ \o WarningLines(ws)]

\* whether a value holds None, for which TOML has no form: tomli_w.dumps
\* raises TypeError on it
RECURSIVE HoldsNone(_)
HoldsNone(value) ==
    \/ value.t = "NoneType"
    \/ \E n \in 1..Len(value.items) : HoldsNone(value.items[n].val)

(***************************************************************************)
(* The run                                                                 *)
(***************************************************************************)
Init ==
    /\ format \in Formats
    /\ callee \in Callees
    \* a call that is not walked needs no more than one keyword
    /\ keywords \in IF is_setup_call(callee) THEN KeywordLists(MaxKeywords)
                    ELSE KeywordLists(1)
    /\ pc = "visit"
    /\ i = 1
    /\ output = <<>>
    /\ warnings = <<>>
    /\ stderr = <<>>
    /\ config = <<>>
    /\ lines = <<>>

\* visit_Call: a call whose callee text ends in "setup" is walked
visit_Call ==
    /\ pc = "visit"
    /\ pc' = IF is_setup_call(callee) /\ Len(keywords) > 0 THEN "walk" ELSE "write"
    /\ UNCHANGED <<format, callee, keywords, i, output, warnings, stderr, config, lines>>

\* a loop body without the try / except: an exception ends the run
process_setup_call_step_uncaught(res) ==
    /\ output' = res.output
    /\ stderr' = res.stderr
    /\ i' = i + 1
    /\ pc' = IF res.raised THEN "crashed" ELSE IF i = Len(keywords) THEN "write" ELSE "walk"
    /\ UNCHANGED <<format, callee, keywords, warnings, config, lines>>

\* the body of the loop of process_setup_call, for keyword i
process_setup_call_step(res) ==
    LET kw == keywords[i]
        w == IF res.raised
             THEN Walker_warn([stderr |-> res.stderr, warnings |-> warnings],
                              Diag("Unable to get value for", "", kw.arg))
             ELSE [stderr |-> res.stderr, warnings |-> warnings]
    IN  /\ output' = res.output
        /\ stderr' = w.stderr
        /\ warnings' = w.warnings
        /\ i' = i + 1
        /\ pc' = IF i = Len(keywords) THEN "write" ELSE "walk"
        /\ UNCHANGED <<format, callee, keywords, config, lines>>

SetupCfg_keyword ==
    /\ pc = "walk"
    /\ format = "setup.cfg"
    /\ process_setup_call_step(SetupCfg_process_setup_keyword(output, stderr, keywords[i]))

PyProject_keyword ==
    /\ pc = "walk"
    /\ format = "pyproject.toml"
    /\ process_setup_call_step(PyProject_process_setup_keyword(output, stderr, keywords[i]))

\* SetupCfgWalker: Walker.write over SetupCfgWalker.get_output
SetupCfg_write ==
    /\ pc = "write"
    /\ format = "setup.cfg"
    /\ LET conf == SetupCfg_get_output(output)
           res == Walker_write(conf, warnings, stderr)
       IN  /\ config' = conf
           /\ lines' = res.lines
           /\ stderr' = res.stderr
           /\ pc' = IF res.raised THEN "crashed" ELSE "done"
    /\ UNCHANGED <<format, callee, keywords, i, output, warnings>>

\* PyProjectTomlWalker.write: the document is tomli_w.dumps(config); its
\* text belongs to tomli_w, config is the data it is given
PyProject_write ==
    /\ pc = "write"
    /\ format = "pyproject.toml"
    /\ LET conf == Walker_get_output(output)
       IN  /\ config' = conf
           /\ pc' = IF \E n \in 1..Len(conf) : HoldsNone(conf[n].data)
                    THEN "crashed" ELSE "done"
    /\ UNCHANGED <<format, callee, keywords, i, output, warnings, stderr, lines>>

Next ==
    \/ visit_Call
    \/ SetupCfg_keyword
    \/ PyProject_keyword
    \/ SetupCfg_write
    \/ PyProject_write

Spec == Init /\ [][Next]_vars

(***************************************************************************)
(* Properties                                                              *)
(***************************************************************************)
Flat == format = "setup.cfg"
Walked == is_setup_call(callee)
WalkOver == pc \in {"write", "done", "crashed"}
\* keyword n has been through the loop body
Processed(n) ==
    /\ Walked
    /\ n \in 1..Len(keywords)
    /\ WalkOver \/ (pc = "walk" /\ i > n)

IsLiteral(node) == node.node \in {"Constant", "List", "Tuple", "Dict"}
TableKeys ==
    IF Flat THEN metadata_keys \cup options_keys
    ELSE Walker_metadata_keys \cup Walker_options_keys
SectionOf(arg) == IF arg \in metadata_keys THEN "metadata" ELSE "options"
InModel(arg) == \E n \in 1..Len(output) : HasKey(output[n].data, arg)
Count(seq, d) == Cardinality({n \in 1..Len(seq) : seq[n] = d})
WarningsFor(arg) == {n \in 1..Len(warnings) : warnings[n].field = arg}
Unable(arg) == Diag("Unable to get value for", "", arg)

\* a value no rule resolves: an operator expression, or a call of
\* something other than find_packages
Unsupported(node) ==
    \/ node.node = "BinOp"
    \/ node.node = "Call" /\ ~endswith(node.func, txt_find_packages)

\* the keywords of a section that have been processed, but for keyword f
RECURSIVE InsertedArgs(_, _, _)
InsertedArgs(section, f, n) ==
    IF n = 0 THEN <<>>
    ELSE IF n /= f /\ Processed(n) /\ SectionOf(keywords[n].arg) = section
    THEN Append(InsertedArgs(section, f, n - 1), keywords[n].arg)
    ELSE InsertedArgs(section, f, n - 1)

C1_Case(f) ==
    /\ Flat
    /\ Walked
    /\ f \in 1..Len(keywords)
    /\ Unsupported(keywords[f].value)
    /\ \A n \in 1..Len(keywords) :
        /\ keywords[n].arg \in metadata_keys \cup options_keys
        /\ n /= f => IsLiteral(keywords[n].value)

\* C1: in a setup.cfg walk of a call whose keywords all have mapped names,
\* one of them (f) with an unsupported value and the others with literal
\* values, every other keyword processed so far is in its section with its
\* literal value, the keys of each section are in source order, keyword f is
\* not in the model, and the warnings are exactly the one diagnostic naming
\* keyword f once f has been processed (none before)
C1_PerFieldIsolation ==
    \A f \in 1..Len(keywords) :
        C1_Case(f) =>
            /\ \A n \in 1..Len(keywords) :
                (n /= f /\ Processed(n)) =>
                    LET data == Section(output, SectionOf(keywords[n].arg))
                    IN  /\ HasKey(data, keywords[n].arg)
                        /\ DictGet(data, keywords[n].arg) = literal_eval(keywords[n].value).val
            /\ \A section \in {"metadata", "options"} :
                Keys(Section(output, section)) = InsertedArgs(section, f, Len(keywords))
            /\ ~InModel(keywords[f].arg)
            /\ warnings = IF Processed(f) THEN <<Unable(keywords[f].arg)>> ELSE <<>>

\* C1 witness: a finished run whose first keyword failed and whose later
\* keywords are in the model
C1_Witness ==
    /\ pc = "done"
    /\ Len(keywords) = MaxKeywords
    /\ C1_Case(1)
    /\ \A n \in 2..Len(keywords) : InModel(keywords[n].arg)
    /\ Len(warnings) = 1

\* C2: for either walker, every key held in the model is a name of the
\* walker's lookup tables (the include / exclude keys that package discovery
\* puts in its own sub-section aside), so a keyword whose name is in neither
\* table is in no section
C2_OnlyTableKeys ==
    \A n \in 1..Len(output) :
        output[n].name /= "options.packages.find" =>
            \A m \in 1..Len(output[n].data) : output[n].data[m].k \in TableKeys

\* C3: in a setup.cfg run, a processed keyword whose name is in neither
\* table has exactly one "No output mapping" diagnostic in the warnings
\* list, and write() prints it in the trailing comment block
C3_UnmappedRecorded ==
    \A n \in 1..Len(keywords) :
        (Flat /\ Processed(n) /\ keywords[n].arg \notin metadata_keys \cup options_keys) =>
            LET d == Diag("No output mapping", "", keywords[n].arg)
            IN  /\ Count(warnings, d) = 1
                /\ pc = "done" => \E p \in 1..Len(lines) : lines[p] = "# " \o MsgText(d)

\* C4: write() of either walker never raises
C4_WriteCompletes == pc /= "crashed"

\* C5: in a pyproject.toml run, a processed keyword whose value is a bare
\* name is not in the model, and a diagnostic is recorded for it
C5_NameNotData ==
    \A n \in 1..Len(keywords) :
        (~Flat /\ Processed(n) /\ keywords[n].value.node = "Name") =>
            /\ ~InModel(keywords[n].arg)
            /\ WarningsFor(keywords[n].arg) /= {}

\* a find_packages call as the value of packages, where given and not "."
C6_Case(n) ==
    /\ Flat
    /\ Walked
    /\ n \in 1..Len(keywords)
    /\ keywords[n].arg = "packages"
    /\ keywords[n].value.node = "Call"
    /\ endswith(keywords[n].value.func, txt_find_packages)
    /\ keywords[n].value.fp.where \notin {ArgAbsent, ArgStr(".")}

\* C6: in a setup.cfg run, once a packages keyword that is a find_packages
\* call with a where other than "." has been processed, options holds no
\* packages key, exactly one diagnostic is recorded for the field (the
\* "Unable to get value" one), and every later processed keyword with a
\* mapped name and a literal value is in the model
C6_NonDefaultWhereRejected ==
    \A n \in 1..Len(keywords) :
        (C6_Case(n) /\ Processed(n)) =>
            /\ ~HasKey(Section(output, "options"), "packages")
            /\ Cardinality(WarningsFor("packages")) = 1
            /\ Count(warnings, Unable("packages")) = 1
            /\ \A m \in (n + 1)..Len(keywords) :
                (/\ Processed(m)
                 /\ keywords[m].arg \in metadata_keys \cup options_keys
                 /\ IsLiteral(keywords[m].value)) => InModel(keywords[m].arg)

\* C6 witness: a finished run with find_packages(where="src") followed by a
\* keyword that is in the model
C6_Witness ==
    /\ pc = "done"
    /\ \E n \in 1..(Len(keywords) - 1) :
        /\ C6_Case(n)
        /\ keywords[n].value.fp.where = ArgStr("src")
        /\ InModel(keywords[n + 1].arg)
        /\ Unable("packages") \in {warnings[m] : m \in 1..Len(warnings)}

\* a find_packages call as the value of packages, where "." or omitted,
\* include and exclude omitted or list / tuple literals
C7_Case(n) ==
    /\ Flat
    /\ Walked
    /\ n \in 1..Len(keywords)
    /\ keywords[n].arg = "packages"
    /\ keywords[n].value.node = "Call"
    /\ endswith(keywords[n].value.func, txt_find_packages)
    /\ keywords[n].value.fp.where \in {ArgAbsent, ArgStr(".")}
    /\ \A key \in {"include", "exclude"} :
        keywords[n].value.fp[key].node \in {"absent", "List", "Tuple"}

\* C7: in a setup.cfg run, once such a packages keyword has been processed,
\* options.packages is the string "find:", and for include and exclude:
\* a non-empty argument is in options.packages.find as a list of exactly its
\* elements in order, an omitted or empty one adds no key
C7_FindDirective ==
    \A n \in 1..Len(keywords) :
        (C7_Case(n) /\ Processed(n)) =>
            /\ HasKey(Section(output, "options"), "packages")
            /\ DictGet(Section(output, "options"), "packages") = PyStr("find:")
            /\ \A key \in {"include", "exclude"} :
                LET find == Section(output, "options.packages.find")
                    given == keywords[n].value.fp[key].elts
                IN  IF given /= <<>>
                    THEN /\ HasKey(find, key)
                         /\ DictGet(find, key) = [t |-> "list", v |-> given, items |-> <<>>]
                    ELSE ~HasKey(find, key)

\* C7 witness: a finished run of find_packages(include=[...], exclude=(...))
\* with both keys in options.packages.find
C7_Witness ==
    /\ pc = "done"
    /\ \E n \in 1..Len(keywords) :
        /\ C7_Case(n)
        /\ Len(keywords[n].value.fp.include.elts) = MaxElts
        /\ keywords[n].value.fp.exclude.node = "Tuple"
        /\ Keys(Section(output, "options.packages.find")) = <<"include", "exclude">>

ConfigData(name) == config[CHOOSE n \in 1..Len(config) : config[n].name = name].data

C8_Case ==
    /\ Flat
    /\ pc \in {"done", "crashed"}
    /\ HasKey(Section(output, "options"), "entry_points")

\* C8: in a setup.cfg run whose model holds entry_points under options, the
\* config that write() gets from get_output has no entry_points key in
\* options or in any section but options.entry_points, which is the value
\* itself, and options keeps its other keys with their values, in order
C8_EntryPointsRelocated ==
    C8_Case =>
        LET options == Section(output, "options")
        IN  /\ \A n \in 1..Len(config) :
                config[n].name /= "options.entry_points" =>
                    ~HasKey(config[n].data.items, "entry_points")
            /\ ConfigData("options.entry_points") = DictGet(options, "entry_points")
            /\ Len(ConfigData("options").items) = Len(options) - 1
            /\ \A m \in 1..Len(options) :
                options[m].k /= "entry_points" =>
                    LET before == Cardinality({q \in 1..m : options[q].k /= "entry_points"})
                    IN  ConfigData("options").items[before] = options[m]

\* C8 witness: a finished run with entry_points between two other options
C8_Witness ==
    /\ pc = "done"
    /\ C8_Case
    /\ Len(Section(output, "options")) = MaxKeywords
    /\ Section(output, "options")[2].k = "entry_points"

\* C9: in a setup.cfg run, a processed packages keyword that calls
\* find_packages or find_namespace_packages, with no arguments that fail, is
\* in options as a directive string and has no diagnostic
C9_BothVariantsRecognized ==
    \A n \in 1..Len(keywords) :
        (/\ Flat
         /\ Processed(n)
         /\ keywords[n].arg = "packages"
         /\ keywords[n].value.node = "Call"
         /\ \/ endswith(keywords[n].value.func, txt_find_packages)
            \/ endswith(keywords[n].value.func, txt_find_namespace_packages)
         /\ keywords[n].value.fp.where \in {ArgAbsent, ArgStr(".")}) =>
            /\ HasKey(Section(output, "options"), "packages")
            /\ DictGet(Section(output, "options"), "packages").t = "str"
            /\ WarningsFor("packages") = {}

\* C10: in a finished setup.cfg run, a processed keyword with a mapped name
\* and a list or tuple literal value is printed as "key =" followed by one
\* indented line per element in order, and is not reported non-serializable
C10_ListAndTupleRendered ==
    \A n \in 1..Len(keywords) :
        (/\ Flat
         /\ pc = "done"
         /\ Processed(n)
         /\ keywords[n].arg \in metadata_keys \cup options_keys
         /\ keywords[n].value.node \in {"List", "Tuple"}) =>
            LET kw == keywords[n]
            IN  /\ \E p \in 1..Len(lines) :
                    /\ lines[p] = kw.arg \o " ="
                    /\ p + Len(kw.value.elts) <= Len(lines)
                    /\ \A j \in 1..Len(kw.value.elts) :
                        lines[p + j] = Spaces(indent) \o kw.value.elts[j]
                /\ \A p \in 1..Len(lines) :
                    lines[p] /= "# Non-serializable value " \o SectionOf(kw.arg) \o "." \o kw.arg

====
